---- MODULE Spec2Model ----
(***************************************************************************)
(* A model of reMarkable/envconfig (v2): Process binds environment         *)
(* variables into the fields of a struct, driven by the struct tags        *)
(* envconfig, default, required and ignored.                               *)
(*                                                                         *)
(* The state is what the tests of envconfig_test.go set up and observe:    *)
(* the process environment (os.Clearenv / os.Setenv), the struct handed to *)
(* Process, and the error Process returned.  Strings are TLA+ strings;     *)
(* Len, Head, Tail, SubSeq and \o read them character by character.        *)
(***************************************************************************)
EXTENDS Integers, Sequences, FiniteSets, TLC

VARIABLES env,     \* the process environment: a function from names to values
          call,    \* the struct type and prefix of the current test
          s,       \* the struct now: a function from field paths to values
          err,     \* what Process returned
          pc       \* "setup": the environment is being filled; "done": Process
                   \* returned; "returned", "panicked": MustProcess did;
                   \* "checked": CheckDisallowed returned

vars == <<env, call, s, err, pc>>

\* The most variables one test sets before it calls Process.
MaxEnv == 2

(***************************************************************************)
(* Strings.                                                                *)
(***************************************************************************)
Lower == "abcdefghijklmnopqrstuvwxyz"
Upper == "ABCDEFGHIJKLMNOPQRSTUVWXYZ"
Digits == "0123456789"

Char(str, i) == SubSeq(str, i, i)

IndexIn(c, alphabet) ==
    IF \E i \in 1..Len(alphabet) : Char(alphabet, i) = c
    THEN CHOOSE i \in 1..Len(alphabet) : Char(alphabet, i) = c
    ELSE 0

IsUpperChar(c) == IndexIn(c, Upper) # 0
IsLowerChar(c) == IndexIn(c, Lower) # 0
IsDigit(c) == IndexIn(c, Digits) # 0

ToUpperChar(c) == IF IsLowerChar(c) THEN Char(Upper, IndexIn(c, Lower)) ELSE c

\* strings.ToUpper
RECURSIVE ToUpper(_)
ToUpper(str) ==
    IF str = "" THEN "" ELSE ToUpperChar(Head(str)) \o ToUpper(Tail(str))

\* The index of the first sep in str, 0 when there is none (strings.Index).
RECURSIVE IndexFrom(_, _, _)
IndexFrom(str, sep, i) ==
    IF i > Len(str) THEN 0
    ELSE IF Char(str, i) = sep THEN i
    ELSE IndexFrom(str, sep, i + 1)

Index(str, sep) == IndexFrom(str, sep, 1)

\* strings.Split(str, sep) for a one-character separator.
RECURSIVE Split(_, _)
Split(str, sep) ==
    LET i == Index(str, sep)
    IN  IF i = 0 THEN <<str>>
        ELSE <<SubSeq(str, 1, i - 1)>> \o Split(SubSeq(str, i + 1, Len(str)), sep)

\* strings.TrimSpace(str) = "" : only blanks.
RECURSIVE IsAllSpace(_)
IsAllSpace(str) ==
    str = "" \/ (Head(str) = " " /\ IsAllSpace(Tail(str)))

(***************************************************************************)
(* Struct types.  A field descriptor holds what reflection reads of one    *)
(* struct field: its identifier, its kind, whether it is embedded, and     *)
(* its tags.  An absent tag reads as "" (reflect.StructTag.Get).           *)
(***************************************************************************)
Fld(name, kind, tag, req, def, ign) ==
    [Name |-> name, Kind |-> kind, Sub |-> "", Anonymous |-> FALSE,
     Tag |-> tag, Required |-> req, Default |-> def, Ignored |-> ign]

Struct(name, sub, anon, tag, req, ign) ==
    [Name |-> name, Kind |-> "struct", Sub |-> sub, Anonymous |-> anon,
     Tag |-> tag, Required |-> req, Default |-> "", Ignored |-> ign]

\* type Embedded struct
Embedded ==
    << Fld("Enabled", "bool", "ENABLED", FALSE, "", FALSE),
       Fld("EmbeddedPort", "int", "EMBEDDEDPORT", FALSE, "", FALSE),
       Fld("EmbeddedAlt", "string", "EMBEDDED_WITH_ALT", FALSE, "", FALSE),
       Fld("EmbeddedIgnored", "string", "EMBEDDEDIGNORED", FALSE, "", TRUE) >>

\* type EmbeddedButIgnored struct
EmbeddedButIgnored ==
    << Fld("FirstEmbeddedButIgnored", "string", "FIRST_EMBEDDED_BUT_IGNORED", FALSE, "", FALSE) >>

\* The anonymous struct type of Specification.NestedSpecification
NestedSpecification ==
    << Fld("Property", "string", "inner", FALSE, "", FALSE),
       Fld("PropertyWithDefault", "string", "PROPERTYWITHDEFAULT", FALSE, "fuzzybydefault", FALSE) >>

\* type Specification struct: the fields whose kinds the model decodes
\* (bool, int, string, map[string]string, struct), in declaration order.
Specification ==
    << Struct("Embedded", "Embedded", TRUE, "EMBEDDED", FALSE, FALSE),
       Struct("EmbeddedButIgnored", "EmbeddedButIgnored", TRUE, "EMBEDDED_BUT_IGNORED", FALSE, TRUE),
       Fld("Port", "int", "PORT", FALSE, "", FALSE),
       Fld("DefaultVar", "string", "DEFAULTVAR", FALSE, "foobar", FALSE),
       Fld("RequiredVar", "string", "REQUIREDVAR", TRUE, "", FALSE),
       Fld("NoPrefixDefault", "string", "BROKER", FALSE, "127.0.0.1", FALSE),
       Fld("RequiredDefault", "string", "REQUIREDDEFAULT", TRUE, "foo2bar", FALSE),
       Fld("Ignored", "string", "IGNORED", FALSE, "", TRUE),
       Struct("NestedSpecification", "NestedSpecification", FALSE, "outer", FALSE, FALSE),
       Fld("MapField", "map", "MAPFIELD", FALSE, "one:two;three:four", FALSE),
       Fld("EmptyMapField", "map", "EMPTY_MAPFIELD", FALSE, "", FALSE) >>

\* TestErrorMessageForRequiredAltVar, TestErrorMessageForRequiredAltVarNoPrefix
RequiredAltVar ==
    << Fld("Foo", "string", "BAR", TRUE, "", FALSE) >>

\* TestErrorMessageForRequiredAltVarNestedStruct
RequiredAltVarNestedFoo ==
    << Fld("Bar", "string", "BAR", TRUE, "", FALSE) >>

RequiredAltVarNested ==
    << Struct("Foo", "RequiredAltVarNestedFoo", FALSE, "FOO", TRUE, FALSE) >>

\* TestNonTaggedFields
NonTaggedFields ==
    << Fld("Foo", "string", "FOO", FALSE, "", FALSE),
       Fld("Bar", "string", "", FALSE, "can you hear me?", FALSE),
       Fld("Baz", "string", "", TRUE, "", FALSE) >>

\* TestNestedStructs
NestedAnonymous ==
    << Fld("Foo", "string", "FOO", FALSE, "", FALSE),
       Fld("Bar", "string", "", FALSE, "", FALSE) >>

NestedNamed ==
    << Fld("Foz", "string", "FOZ", FALSE, "", FALSE),
       Fld("Baz", "string", "", FALSE, "", FALSE) >>

NestedNamedButSkipped ==
    << Fld("Hello", "string", "HELLO", FALSE, "", FALSE) >>

NestedStructs ==
    << Struct("Anonymous", "NestedAnonymous", FALSE, "", FALSE, FALSE),
       Struct("Named", "NestedNamed", FALSE, "NAMED", FALSE, FALSE),
       Struct("NamedButSkipped", "NestedNamedButSkipped", FALSE, "SKIPPED", FALSE, FALSE) >>

\* A struct a caller may declare, holding the tag combinations the test
\* structs leave out: two required fields without default (one of them
\* nested, one an int), lower-case annotations, two levels of nesting,
\* an untagged multi-word
\* field, an embedded struct without annotation, and ignored fields that
\* also carry default and required.
ProbeDeep ==
    << Fld("Cc", "string", "cc", FALSE, "", FALSE) >>

ProbeIn ==
    << Fld("Bb", "int", "BB", TRUE, "", FALSE),
       Struct("Deep", "ProbeDeep", FALSE, "dp", FALSE, FALSE) >>

ProbePlain ==
    << Fld("Dd", "string", "DD", FALSE, "dflt", FALSE) >>

ProbeIgS ==
    << Fld("Ee", "string", "EE", TRUE, "", FALSE) >>

Probe ==
    << Fld("Aa", "string", "aa", TRUE, "", FALSE),
       Struct("In", "ProbeIn", FALSE, "in", FALSE, FALSE),
       Struct("ProbePlain", "ProbePlain", TRUE, "", FALSE, FALSE),
       Fld("MultiWordVar", "string", "", TRUE, "dflt", FALSE),
       Fld("Ig", "string", "IG", TRUE, "dflt", TRUE),
       Struct("IgS", "ProbeIgS", FALSE, "IGS", FALSE, TRUE) >>

(***************************************************************************)
(* Fields whose types are decoded by a hook, a pointer or as a duration.   *)
(* A hooked struct type (Decode, Set) is declared with its own fields.     *)
(***************************************************************************)
\* type HonorDecodeInStruct struct
HonorDecodeInStruct ==
    << Fld("Value", "string", "", FALSE, "", FALSE) >>

\* type setterStruct struct
setterStruct ==
    << Fld("Inner", "string", "", FALSE, "", FALSE) >>

\* type GooglePubSubTopic struct
GooglePubSubTopic ==
    << Fld("ProjectID", "string", "", FALSE, "", FALSE),
       Fld("TopicID", "string", "", FALSE, "", FALSE) >>

\* type GoogleFirestoreDatabase struct
GoogleFirestoreDatabase ==
    << Fld("ProjectID", "string", "", FALSE, "", FALSE),
       Fld("Database", "string", "", FALSE, "", FALSE) >>

\* type Specification struct, continued: its bool, duration, pointer and
\* hooked fields, with RequiredVar and Ignored, in declaration order.
SpecificationHooks ==
    << Fld("Debug", "bool", "DEBUG", FALSE, "", FALSE),
       Fld("Timeout", "duration", "TIMEOUT", FALSE, "", FALSE),
       Fld("SomePointer", "*string", "SOMEPOINTER", FALSE, "", FALSE),
       Fld("SomePointerWithDefault", "*string", "SOMEPOINTERWITHDEFAULT", FALSE, "foo2baz", FALSE),
       Fld("RequiredVar", "string", "REQUIREDVAR", TRUE, "", FALSE),
       Fld("Ignored", "string", "IGNORED", FALSE, "", TRUE),
       Struct("DecodeStruct", "HonorDecodeInStruct", FALSE, "honor", FALSE, FALSE),
       Struct("GooglePubSubTopic", "GooglePubSubTopic", FALSE, "GOOGLE_PUBSUB_TOPIC", FALSE, FALSE),
       Struct("GoogleFirestoreDatabase", "GoogleFirestoreDatabase", FALSE,
              "GOOGLE_FIRESTORE_DATABASE", FALSE, FALSE),
       Struct("GoogleFirestoreDatabaseDefault", "GoogleFirestoreDatabase", FALSE,
              "GOOGLE_FIRESTORE_DATABASE_DEFAULT", FALSE, FALSE) >>

\* TestDayDuration
DayDuration ==
    << Fld("Days0", "duration", "DAYS_0", FALSE, "0d", FALSE),
       Fld("Days1", "duration", "DAYS_1", FALSE, "1d", FALSE),
       Fld("Days10", "duration", "DAYS_10", FALSE, "10d", FALSE) >>

\* TestCustomValueFields
CustomValueFields ==
    << Fld("Foo", "string", "FOO", FALSE, "", FALSE),
       Fld("Bar", "bracketed", "BAR", FALSE, "", FALSE),
       Fld("Baz", "quoted", "BAZ", FALSE, "", FALSE),
       Struct("Struct", "setterStruct", FALSE, "STRUCT", FALSE, FALSE) >>

\* TestCustomPointerFields
CustomPointerFields ==
    << Fld("Foo", "string", "FOO", FALSE, "", FALSE),
       Fld("Bar", "*bracketed", "BAR", FALSE, "", FALSE),
       Fld("Baz", "*quoted", "BAZ", FALSE, "", FALSE),
       Fld("Struct", "*setterStruct", "STRUCT", FALSE, "", FALSE) >>

\* A struct a caller may declare for the hook combinations the test types
\* leave out: a type with both Set and a binary hook, types with the binary
\* hook alone, one of them a struct whose field carries an annotation.
probeStruct ==
    << Fld("Inner", "string", "INNER", FALSE, "", FALSE) >>

ProbeHooks ==
    << Fld("Both", "probeSetBinary", "BOTH", FALSE, "", FALSE),
       Fld("Bin", "probeBinary", "BIN", TRUE, "", FALSE),
       Struct("Leaf", "probeStruct", FALSE, "LEAF", FALSE, FALSE),
       Fld("After", "string", "AFTER", FALSE, "dflt", FALSE) >>

TypeNames ==
    {"Specification", "Embedded", "EmbeddedButIgnored", "NestedSpecification",
     "RequiredAltVar", "RequiredAltVarNested", "RequiredAltVarNestedFoo",
     "NonTaggedFields", "NestedStructs", "NestedAnonymous", "NestedNamed",
     "NestedNamedButSkipped", "Probe", "ProbeIn", "ProbeDeep", "ProbePlain",
     "ProbeIgS", "HonorDecodeInStruct", "setterStruct", "GooglePubSubTopic",
     "GoogleFirestoreDatabase", "SpecificationHooks", "DayDuration",
     "CustomValueFields", "CustomPointerFields", "probeStruct", "ProbeHooks"}

\* reflect.TypeOf(spec): the fields of a struct type, in declaration order.
Fields(T) ==
    CASE T = "Specification" -> Specification
      [] T = "Embedded" -> Embedded
      [] T = "EmbeddedButIgnored" -> EmbeddedButIgnored
      [] T = "NestedSpecification" -> NestedSpecification
      [] T = "RequiredAltVar" -> RequiredAltVar
      [] T = "RequiredAltVarNested" -> RequiredAltVarNested
      [] T = "RequiredAltVarNestedFoo" -> RequiredAltVarNestedFoo
      [] T = "NonTaggedFields" -> NonTaggedFields
      [] T = "NestedStructs" -> NestedStructs
      [] T = "NestedAnonymous" -> NestedAnonymous
      [] T = "NestedNamed" -> NestedNamed
      [] T = "NestedNamedButSkipped" -> NestedNamedButSkipped
      [] T = "Probe" -> Probe
      [] T = "ProbeIn" -> ProbeIn
      [] T = "ProbeDeep" -> ProbeDeep
      [] T = "ProbePlain" -> ProbePlain
      [] T = "ProbeIgS" -> ProbeIgS
      [] T = "HonorDecodeInStruct" -> HonorDecodeInStruct
      [] T = "setterStruct" -> setterStruct
      [] T = "GooglePubSubTopic" -> GooglePubSubTopic
      [] T = "GoogleFirestoreDatabase" -> GoogleFirestoreDatabase
      [] T = "SpecificationHooks" -> SpecificationHooks
      [] T = "DayDuration" -> DayDuration
      [] T = "CustomValueFields" -> CustomValueFields
      [] T = "CustomPointerFields" -> CustomPointerFields
      [] T = "probeStruct" -> probeStruct
      [] T = "ProbeHooks" -> ProbeHooks

(***************************************************************************)
(* Field values.  A string field holds a string, an int field an integer,  *)
(* a bool field a boolean, and a map[string]string field either nil or a   *)
(* set of <<key, value>> pairs with one pair per key.  A time.Duration     *)
(* field holds a number of seconds; a field of a string-based hooked type  *)
(* (bracketed, quoted) holds what its String() gives.                      *)
(***************************************************************************)
NilMap == [nil |-> TRUE, kv |-> {}]
MakeMap(kv) == [nil |-> FALSE, kv |-> kv]

\* A *string field: nil, or a pointer to a string.
NilPtr == [nil |-> TRUE, val |-> ""]
PtrTo(v) == [nil |-> FALSE, val |-> v]

\* The zero value of a kind (var s T).
ZeroOf(kind) ==
    CASE kind = "string" -> ""
      [] kind = "int" -> 0
      [] kind = "bool" -> FALSE
      [] kind = "map" -> NilMap
      [] kind = "duration" -> 0
      [] kind = "*string" -> NilPtr
      [] kind = "bracketed" -> ""
      [] kind = "quoted" -> ""
      [] kind = "probeSetBinary" -> ""
      [] kind = "probeBinary" -> ""
      \* s.Bar = new(bracketed); s.Baz = &quoted{new(bracketed)}; s.Struct
      \* is nil
      [] kind = "*bracketed" -> PtrTo("")
      [] kind = "*quoted" -> PtrTo("")
      [] kind = "*setterStruct" -> [nil |-> TRUE, val |-> [Inner |-> ""]]

\* A value of the kind that is not its zero value and that no variable or
\* default of the model decodes to: what a caller may have stored before.
PresetOf(kind) ==
    CASE kind = "string" -> "preset"
      [] kind = "int" -> 7
      [] kind = "bool" -> TRUE
      [] kind = "map" -> MakeMap({<<"k", "v">>})
      [] kind = "duration" -> 7
      [] kind = "*string" -> PtrTo("preset")
      [] kind = "bracketed" -> "preset"
      [] kind = "quoted" -> "preset"
      [] kind = "probeSetBinary" -> "preset"
      [] kind = "probeBinary" -> "preset"
      [] kind = "*bracketed" -> PtrTo("preset")
      [] kind = "*quoted" -> PtrTo("preset")
      [] kind = "*setterStruct" -> PtrTo([Inner |-> "preset"])

\* The leaf fields of a struct type, each with its path from the root,
\* whatever its tags say.
RECURSIVE LeavesFrom(_, _, _)
LeavesFrom(T, path, i) ==
    IF i > Len(Fields(T)) THEN <<>>
    ELSE LET f == Fields(T)[i]
             p == IF path = "" THEN f.Name ELSE path \o "." \o f.Name
         IN  (IF f.Kind = "struct" THEN LeavesFrom(f.Sub, p, 1)
              ELSE << [Path |-> p, Kind |-> f.Kind] >>)
             \o LeavesFrom(T, path, i + 1)

Leaves(T) == LeavesFrom(T, "", 1)

Range(seq) == {seq[i] : i \in DOMAIN seq}

Paths(T) == {l.Path : l \in Range(Leaves(T))}

KindAt(T, path) == (CHOOSE l \in Range(Leaves(T)) : l.Path = path).Kind

NewStruct(T, preset) ==
    [p \in Paths(T) |-> IF preset THEN PresetOf(KindAt(T, p)) ELSE ZeroOf(KindAt(T, p))]

\* Every leaf field, in declaration order, with the struct-typed fields that
\* enclose it, outermost first.
RECURSIVE ChainsFrom(_, _, _, _)
ChainsFrom(T, path, segs, i) ==
    IF i > Len(Fields(T)) THEN <<>>
    ELSE LET f == Fields(T)[i]
             p == IF path = "" THEN f.Name ELSE path \o "." \o f.Name
         IN  (IF f.Kind = "struct" THEN ChainsFrom(f.Sub, p, Append(segs, f), 1)
              ELSE <<[Path |-> p, Segs |-> segs, Leaf |-> f]>>)
             \o ChainsFrom(T, path, segs, i + 1)

Chains(T) == ChainsFrom(T, "", <<>>, 1)

(***************************************************************************)
(* Decoding a raw value into a field (processField).                       *)
(***************************************************************************)
RECURSIVE AllDigits(_)
AllDigits(str) == str = "" \/ (IsDigit(Head(str)) /\ AllDigits(Tail(str)))

RECURSIVE DigitsValue(_, _)
DigitsValue(str, acc) ==
    IF str = "" THEN acc
    ELSE DigitsValue(Tail(str), acc * Len(Digits) + (IndexIn(Head(str), Digits) - 1))

\* strconv.ParseInt of a decimal literal with an optional sign.  The values
\* the model sets carry no base prefix and fit every integer width.
ParseInt(str) ==
    LET signed == str # "" /\ Head(str) \in {"+", "-"}
        body == IF signed THEN Tail(str) ELSE str
    IN  IF body = "" \/ ~AllDigits(body) THEN [ok |-> FALSE, val |-> 0]
        ELSE [ok |-> TRUE,
              val |-> IF signed /\ Head(str) = "-" THEN 0 - DigitsValue(body, 0)
                      ELSE DigitsValue(body, 0)]

\* strconv.ParseBool
ParseBool(str) ==
    IF str \in {"1", "t", "T", "TRUE", "true", "True"} THEN [ok |-> TRUE, val |-> TRUE]
    ELSE IF str \in {"0", "f", "F", "FALSE", "false", "False"} THEN [ok |-> TRUE, val |-> FALSE]
    ELSE [ok |-> FALSE, val |-> FALSE]

\* The entries of a map value, left to right; a later entry replaces an
\* earlier one with the same key; an entry without a colon is an error.
RECURSIVE ParseMapEntries(_, _, _)
ParseMapEntries(pairs, i, kv) ==
    IF i > Len(pairs) THEN [ok |-> TRUE, val |-> MakeMap(kv)]
    ELSE LET c == Index(pairs[i], ":")
             k == SubSeq(pairs[i], 1, c - 1)
             v == SubSeq(pairs[i], c + 1, Len(pairs[i]))
         IN  IF c = 0 THEN [ok |-> FALSE, val |-> NilMap]
             ELSE ParseMapEntries(pairs, i + 1, {e \in kv : e[1] # k} \cup {<<k, v>>})

ParseMap(str) ==
    IF IsAllSpace(str) THEN [ok |-> TRUE, val |-> MakeMap({})]
    ELSE ParseMapEntries(Split(str, ";"), 1, {})

\* strconv.Itoa of a natural number.
RECURSIVE Itoa(_)
Itoa(n) ==
    IF n < Len(Digits) THEN Char(Digits, n + 1)
    ELSE Itoa(n \div Len(Digits)) \o Char(Digits, (n % Len(Digits)) + 1)

\* The number of digits a string starts with.
RECURSIVE LeadingDigits(_)
LeadingDigits(str) ==
    IF str # "" /\ IsDigit(Head(str)) THEN 1 + LeadingDigits(Tail(str)) ELSE 0

HoursPerDay == 24
SecondsPerMinute == 60
SecondsPerHour == 3600

\* The pre-pass of a duration value: every run of digits that a "d" follows
\* is multiplied out into hours ("10d" -> "240h"); the rest is copied.
RECURSIVE DaysToHours(_)
DaysToHours(str) ==
    IF str = "" THEN ""
    ELSE LET n == LeadingDigits(str)
             rest == SubSeq(str, n + 1, Len(str))
         IN  IF n = 0 THEN Head(str) \o DaysToHours(Tail(str))
             ELSE IF rest # "" /\ Head(rest) = "d"
             THEN Itoa(DigitsValue(SubSeq(str, 1, n), 0) * HoursPerDay) \o "h"
                  \o DaysToHours(Tail(rest))
             ELSE SubSeq(str, 1, n) \o DaysToHours(rest)

\* The terms of time.ParseDuration, left to right: digits and a unit each.
\* The values the model sets are whole hours, minutes and seconds, so the
\* duration is counted in seconds.
RECURSIVE ParseDurationTerms(_, _)
ParseDurationTerms(str, acc) ==
    IF str = "" THEN [ok |-> TRUE, val |-> acc]
    ELSE LET n == LeadingDigits(str)
             v == DigitsValue(SubSeq(str, 1, n), 0)
             rest == SubSeq(str, n + 1, Len(str))
             unit == IF rest = "" THEN "" ELSE Head(rest)
         IN  IF n = 0 THEN [ok |-> FALSE, val |-> 0]
             ELSE IF unit = "h" THEN ParseDurationTerms(Tail(rest), acc + v * SecondsPerHour)
             ELSE IF unit = "m" THEN ParseDurationTerms(Tail(rest), acc + v * SecondsPerMinute)
             ELSE IF unit = "s" THEN ParseDurationTerms(Tail(rest), acc + v)
             ELSE [ok |-> FALSE, val |-> 0]

\* time.ParseDuration: "0" alone is a duration; any other value is a
\* sequence of terms, and the empty string is none.
ParseDuration(str) ==
    IF str = "0" THEN [ok |-> TRUE, val |-> 0]
    ELSE IF str = "" THEN [ok |-> FALSE, val |-> 0]
    ELSE ParseDurationTerms(str, 0)

\* Variant: the standard grammar alone, without the day unit.
ParseDurationOnly(str) == ParseDuration(str)

\* A time.Duration field: the day pre-pass, then time.ParseDuration.
ParseDayDuration(str) == ParseDuration(DaysToHours(str))

(***************************************************************************)
(* package types: the Set hooks of GooglePubSubTopic and                   *)
(* GoogleFirestoreDatabase.  Both regular expressions are a literal, a     *)
(* group ([\w-]+), a literal and a second group ([\w-]+), not anchored: a  *)
(* pattern is held as its two literals.                                    *)
(***************************************************************************)
\* The class [\w-]
IsWordOrDash(c) == IsDigit(c) \/ IsUpperChar(c) \/ IsLowerChar(c) \/ c \in {"_", "-"}

\* Where the longest run of [\w-] that starts at position i ends (i - 1
\* when position i is not of the class).
RECURSIVE ClassRun(_, _)
ClassRun(str, i) ==
    IF i <= Len(str) /\ IsWordOrDash(Char(str, i)) THEN ClassRun(str, i + 1) ELSE i - 1

HasAt(str, i, lit) ==
    i + Len(lit) - 1 <= Len(str) /\ SubSeq(str, i, i + Len(lit) - 1) = lit

\* The match that starts at position i: the whole match and the two groups,
\* or <<>>.  A group is greedy, and what follows it cannot start with a
\* character of the class, so a group is the longest run.
MatchAt(re, str, i) ==
    LET a == i + Len(re[1])
        b == ClassRun(str, a)
        c == b + 1 + Len(re[2])
        d == ClassRun(str, c)
    IN  IF HasAt(str, i, re[1]) /\ b >= a /\ HasAt(str, b + 1, re[2]) /\ d >= c
        THEN <<SubSeq(str, i, d), SubSeq(str, a, b), SubSeq(str, c, d)>>
        ELSE <<>>

RECURSIVE FindFrom(_, _, _)
FindFrom(re, str, i) ==
    IF i > Len(str) THEN <<>>
    ELSE LET m == MatchAt(re, str, i)
         IN  IF m # <<>> THEN m ELSE FindFrom(re, str, i + 1)

\* (*Regexp).FindStringSubmatch: the leftmost match, or nil.
FindStringSubmatch(re, str) == FindFrom(re, str, 1)

ErrInvalidGoogleTopicID == "topic is not valid format"
googleTopicRegexp == <<"projects/", "/topics/">>

\* Variant: the fields are stored before the match is checked.
GooglePubSubTopicSetEager(pst, value) ==
    LET m == FindStringSubmatch(googleTopicRegexp, value)
        parts == Split(value, "/")
    IN  IF Len(m) # 3
        THEN [err |-> ErrInvalidGoogleTopicID,
              val |-> [ProjectID |-> IF Len(parts) > 1 THEN parts[2] ELSE "", TopicID |-> ""]]
        ELSE [err |-> "", val |-> [ProjectID |-> m[2], TopicID |-> m[3]]]

\* func (pst *GooglePubSubTopic) Set(value string) error: the error ("" for
\* nil) and the receiver afterwards.  m[1], m[2] of the code are m[2], m[3].
GooglePubSubTopicSet(pst, value) ==
    LET m == FindStringSubmatch(googleTopicRegexp, value)
    IN  IF Len(m) # 3 THEN [err |-> ErrInvalidGoogleTopicID, val |-> pst]
        ELSE [err |-> "", val |-> [ProjectID |-> m[2], TopicID |-> m[3]]]

ErrInvalidGoogleFirestoreID == "firestore id is not valid format"
googleFirestoreRegexp == <<"projects/", "/databases/">>

\* func (pst *GoogleFirestoreDatabase) Set(value string) error
GoogleFirestoreDatabaseSet(pst, value) ==
    LET m == FindStringSubmatch(googleFirestoreRegexp, value)
    IN  IF Len(m) # 3 THEN [err |-> ErrInvalidGoogleFirestoreID, val |-> pst]
        ELSE [err |-> "", val |-> [ProjectID |-> m[2], Database |-> m[3]]]

(***************************************************************************)
(* The hooks of the test types.                                            *)
(***************************************************************************)
\* func (h *HonorDecodeInStruct) Decode(env string) error
HonorDecodeInStructDecode(h, value) == [err |-> "", val |-> [Value |-> "decoded"]]

\* func (b *bracketed) Set(value string) error
bracketedSet(b, value) == [err |-> "", val |-> "[" \o value \o "]"]

\* func (d quoted) Decode(value string) error: d.Set of the quoted value,
\* d holding a *bracketed.
quotedDecode(d, value) == bracketedSet(d, "\"" \o value \o "\"")

\* quoted embeds flag.Value: its Set is the Set of the *bracketed it holds.
quotedSet(d, value) == bracketedSet(d, value)

\* func (ss *setterStruct) Set(value string) error; %q of a value without
\* quotes, backslashes or control characters is the value in double quotes.
setterStructSet(ss, value) ==
    [err |-> "", val |-> [Inner |-> "setterstruct{\"" \o value \o "\"}"]]

\* The hooks a type implements; a pointer type has those of its element.
Hooks(T) ==
    CASE T = "HonorDecodeInStruct" -> {"Decode"}
      [] T \in {"*bracketed", "*setterStruct"} -> {"Set"}
      [] T = "*quoted" -> {"Decode", "Set"}
      [] T = "bracketed" -> {"Set"}
      [] T = "quoted" -> {"Decode", "Set"}
      [] T = "setterStruct" -> {"Set"}
      [] T = "GooglePubSubTopic" -> {"Set"}
      [] T = "GoogleFirestoreDatabase" -> {"Set"}
      [] T = "probeSetBinary" -> {"Set", "UnmarshalBinary"}
      [] T = "probeBinary" -> {"UnmarshalBinary"}
      [] T = "probeStruct" -> {"UnmarshalBinary"}
      [] OTHER -> {}

\* A hook called through a pointer field works on what the field points
\* to, allocated if the field is nil.
Pointed(r) == [err |-> r.err, val |-> PtrTo(r.val)]

Decode(T, recv, value) ==
    CASE T = "HonorDecodeInStruct" -> HonorDecodeInStructDecode(recv, value)
      [] T = "quoted" -> quotedDecode(recv, value)
      [] T = "*quoted" -> Pointed(quotedDecode(recv.val, value))

Set(T, recv, value) ==
    CASE T = "bracketed" -> bracketedSet(recv, value)
      [] T = "quoted" -> quotedSet(recv, value)
      [] T = "setterStruct" -> setterStructSet(recv, value)
      [] T = "GooglePubSubTopic" -> GooglePubSubTopicSet(recv, value)
      [] T = "GoogleFirestoreDatabase" -> GoogleFirestoreDatabaseSet(recv, value)
      [] T = "probeSetBinary" -> [err |-> "", val |-> "set:" \o value]
      [] T = "*bracketed" -> Pointed(bracketedSet(recv.val, value))
      [] T = "*quoted" -> Pointed(quotedSet(recv.val, value))
      [] T = "*setterStruct" -> Pointed(setterStructSet(recv.val, value))

UnmarshalBinary(T, recv, value) ==
    CASE T = "probeSetBinary" -> [err |-> "", val |-> "binary:" \o value]
      [] T = "probeBinary" ->
           IF value = "" \/ Head(value) = "%" THEN [err |-> "invalid escape", val |-> recv]
           ELSE [err |-> "", val |-> "binary:" \o value]
      [] T = "probeStruct" -> [err |-> "", val |-> [Inner |-> "binary:" \o value]]

\* Variant: Set is looked for before Decode.
decoderFromSetFirst(T) ==
    IF "Set" \in Hooks(T) THEN "Set"
    ELSE IF "Decode" \in Hooks(T) THEN "Decode"
    ELSE IF "UnmarshalBinary" \in Hooks(T) THEN "UnmarshalBinary"
    ELSE ""

\* Variant: the binary hook is looked for before Set.
decoderFromBinaryFirst(T) ==
    IF "Decode" \in Hooks(T) THEN "Decode"
    ELSE IF "UnmarshalBinary" \in Hooks(T) THEN "UnmarshalBinary"
    ELSE IF "Set" \in Hooks(T) THEN "Set"
    ELSE ""

\* The hook that decodes a value of type T, "" for none: Decode before Set
\* before the binary hook.
decoderFrom(T) ==
    IF "Decode" \in Hooks(T) THEN "Decode"
    ELSE IF "Set" \in Hooks(T) THEN "Set"
    ELSE IF "UnmarshalBinary" \in Hooks(T) THEN "UnmarshalBinary"
    ELSE ""

\* The zero value of a field of type T: of a struct type, its fields' zero
\* values by name.
ZeroValue(T) ==
    IF T \in TypeNames
    THEN [n \in {Fields(T)[i].Name : i \in DOMAIN Fields(T)} |->
              ZeroOf((CHOOSE f \in Range(Fields(T)) : f.Name = n).Kind)]
    ELSE ZeroOf(T)

\* Variant: the value is decoded into a copy and the field stays nil.
decodePointerDropped(value) == [ok |-> TRUE, val |-> NilPtr]

\* A *string field with a value: a string is allocated, the value is
\* decoded into it, and the field points to it.
decodePointer(value) == [ok |-> TRUE, val |-> PtrTo(value)]

\* The built-in decoding by kind, and what it fails with.
decodeKind(value, kind) ==
    LET r == CASE kind = "string" -> [ok |-> TRUE, val |-> value]
               [] kind = "int" -> ParseInt(value)
               [] kind = "bool" -> ParseBool(value)
               [] kind = "map" -> ParseMap(value)
               [] kind = "duration" -> ParseDayDuration(value)
               [] kind = "*string" -> decodePointer(value)
               [] OTHER -> [ok |-> FALSE, val |-> 0]
        cause == CASE kind \in {"int", "bool"} -> "invalid syntax"
                   [] kind = "map" -> "invalid map item"
                   [] kind = "duration" -> "invalid duration"
                   [] OTHER -> "unsupported type"
    IN  [ok |-> r.ok, val |-> r.val, err |-> IF r.ok THEN "" ELSE cause]

\* processField(value, field) for a field of type T that holds its zero
\* value: a hook of the type decodes the value into the field, else the
\* built-in decoding of its kind does.  val is what the field holds
\* afterwards; the built-in decoding stores nothing when it fails.
processField(value, T) ==
    LET h == decoderFrom(T)
        r == CASE h = "Decode" -> Decode(T, ZeroValue(T), value)
               [] h = "Set" -> Set(T, ZeroValue(T), value)
               [] h = "UnmarshalBinary" -> UnmarshalBinary(T, ZeroValue(T), value)
    IN  IF h = "" THEN decodeKind(value, T)
        ELSE [ok |-> r.err = "", val |-> r.val, err |-> r.err]

\* The values a test sets: blank, a number, a map entry.
Values == {"", "1", "a:1"}

\* The struct types Process is called on.
SpecTypes == {"Specification", "RequiredAltVar", "RequiredAltVarNested",
              "NonTaggedFields", "NestedStructs", "Probe"}

\* The struct types of the tests on hooks, pointers and durations.
HookTypes == {"SpecificationHooks", "DayDuration", "CustomValueFields",
              "CustomPointerFields", "ProbeHooks"}

AllTypes == SpecTypes \cup HookTypes

\* The type a field is decoded as: its struct type, or its kind.
TypeOf(f) == IF f.Kind = "struct" THEN f.Sub ELSE f.Kind

\* The values a test sets for a field of type T: well-formed and malformed
\* ones.
ValuesOf(T) ==
    CASE T = "bool" -> {"true", "maybe"}
      [] T = "string" -> {"", "foo"}
      [] T = "*string" -> {"", "foobaz"}
      [] T = "duration" -> {"10d", "1d", "0d", "1dd", "d", " d", "2m", "1h30m", "1d12h", "0"}
      [] T \in {"bracketed", "*bracketed"} -> {"bar"}
      [] T \in {"quoted", "*quoted"} -> {"baz"}
      [] T \in {"setterStruct", "*setterStruct"} -> {"inner"}
      [] T = "HonorDecodeInStruct" -> {"honor"}
      [] T = "GooglePubSubTopic" ->
           {"projects/project-id/topics/topic-id", "invalid/project-id/topics"}
      [] T = "GoogleFirestoreDatabase" ->
           {"projects/project-id/databases/db", "projects/project-id/databases/(default)",
            "invalid/project-id/databases", "x/projects/p_1/databases/d-2/y"}
      [] T = "probeSetBinary" -> {"v"}
      [] T = "probeBinary" -> {"v", "%"}
      [] T = "probeStruct" -> {"v"}

\* The values a test sets for a field that has a default: one that
\* replaces it.
Overrides(T) ==
    CASE T = "duration" -> {"2m"}
      [] T = "*string" -> {"", "foobaz"}
      [] OTHER -> {"", "foo"}

\* What decoding gives for each raw value a variable or a default tag of
\* the structs holds, computed once.
RawValues ==
    Values
    \cup UNION {{Chains(T)[i].Leaf.Default : i \in DOMAIN Chains(T)} : T \in AllTypes}
    \cup UNION {UNION {ValuesOf(TypeOf(f)) : f \in Range(Fields(T))} : T \in HookTypes}
Kinds == {"string", "int", "bool", "map"}
DecodeTypes ==
    Kinds \cup UNION {{TypeOf(f) : f \in Range(Fields(T))} : T \in HookTypes}
decoded == [value \in RawValues, T \in DecodeTypes |-> processField(value, T)]

(***************************************************************************)
(* gatherInfo(prefix, spec): one varInfo per field Process binds, in       *)
(* traversal order.                                                        *)
(***************************************************************************)
\* Variant: a field without annotation is named by its identifier.
SegmentOrFieldName(f) == ToUpper(IF f.Tag # "" THEN f.Tag ELSE f.Name)

\* The name a field contributes to keys: its envconfig annotation, upper-cased
\* (varInfo.Alt); "" without annotation.
Segment(f) == ToUpper(f.Tag)

\* Variant: the key is joined as written, not uppercased.
KeyOfAsWritten(prefix, alt) == IF prefix # "" THEN prefix \o "_" \o alt ELSE alt

\* The key of a field with name alt under prefix (varInfo.Key).
KeyOf(prefix, alt) ==
    ToUpper(IF prefix # "" THEN prefix \o "_" \o alt ELSE alt)

\* Variant: every named struct-typed field adds a segment, its identifier
\* when it carries no annotation.
InnerPrefixNamed(prefix, f) ==
    IF f.Anonymous THEN prefix
    ELSE KeyOf(prefix, ToUpper(IF f.Tag # "" THEN f.Tag ELSE f.Name))

\* Variant: every struct-typed field with an annotation adds a segment,
\* embedded or not.
InnerPrefixAnnotated(prefix, f) ==
    IF ToUpper(f.Tag) # "" THEN KeyOf(prefix, ToUpper(f.Tag)) ELSE prefix

\* The prefix the fields of a struct-typed field are bound under: the
\* field's own key when it is a named field with an annotation, the
\* enclosing prefix when it is embedded or carries no annotation.
InnerPrefix(prefix, f) ==
    IF ~f.Anonymous /\ Segment(f) # "" THEN KeyOf(prefix, Segment(f)) ELSE prefix

\* Variant: only ignored fields are left out.
SkippedIfIgnored(f) == f.Ignored

\* Variant: only leaves without a name are left out.
SkippedIfUnnamed(f) == f.Kind # "struct" /\ ToUpper(f.Tag) = ""

\* Whether gatherInfo leaves a field out: it is marked ignored, or it is a
\* leaf without a name.
Skipped(f) ==
    f.Ignored \/ (f.Kind # "struct" /\ Segment(f) = "")

\* Variant: every struct field is traversed, hooked or not.
IsLeafUnlessStruct(f) == f.Kind # "struct"

\* Whether a field is bound as a whole: it is no struct, or its struct type
\* has a hook that decodes it.
IsLeaf(f) == f.Kind # "struct" \/ decoderFrom(f.Sub) # ""

RECURSIVE gatherFrom(_, _, _, _)
gatherFrom(prefix, T, path, i) ==
    IF i > Len(Fields(T)) THEN <<>>
    ELSE LET f == Fields(T)[i]
             p == IF path = "" THEN f.Name ELSE path \o "." \o f.Name
             info == [Name |-> f.Name, Path |-> p, Kind |-> f.Kind, Type |-> TypeOf(f),
                      Alt |-> Segment(f), Key |-> KeyOf(prefix, Segment(f)),
                      Required |-> f.Required, Default |-> f.Default]
         IN  (IF Skipped(f) THEN <<>>
              ELSE IF ~IsLeaf(f) THEN gatherFrom(InnerPrefix(prefix, f), f.Sub, p, 1)
              ELSE <<info>>)
             \o gatherFrom(prefix, T, path, i + 1)

gatherInfo(prefix, T) == gatherFrom(prefix, T, "", 1)

(***************************************************************************)
(* Process(prefix, spec).                                                  *)
(***************************************************************************)
NoError == [kind |-> "nil", field |-> "", key |-> "", keys |-> <<>>, cause |-> ""]

\* &ParseError{KeyName, FieldName, TypeName, Value, Err}: cause is Err.
ParseError(info, cause) ==
    [kind |-> "ParseError", field |-> info.Name, key |-> info.Key, keys |-> <<>>,
     cause |-> cause]

\* var ErrInvalidSpecification
ErrInvalidSpecification ==
    [kind |-> "ErrInvalidSpecification", field |-> "", key |-> "", keys |-> <<>>, cause |-> ""]

\* fmt.Errorf("unknown environment variable %s", v)
UnknownVariable(v) ==
    [kind |-> "unknown environment variable", field |-> "", key |-> v, keys |-> <<>>,
     cause |-> ""]

\* Variant: the error is returned at the first unmet required field.
RequiredFieldErrorFirst(keys) ==
    [kind |-> "RequiredFieldError", field |-> "", key |-> "", keys |-> <<Head(keys)>>,
     cause |-> ""]

RequiredFieldError(keys) ==
    [kind |-> "RequiredFieldError", field |-> "", key |-> "", keys |-> keys, cause |-> ""]

\* os.LookupEnv
lookupEnv(e, key) ==
    IF key \in DOMAIN e THEN [value |-> e[key], ok |-> TRUE]
    ELSE [value |-> "", ok |-> FALSE]

\* Variant: a blank variable counts as set, as before V2.
IsSetWhenPresent(l) == l.ok

\* Whether the variable counts as set: a variable set blank is handled as a
\* missing one.
IsSet(l) == l.ok /\ l.value # ""

\* The struct with the decoded value stored in the field: a hooked struct
\* field takes the value field by field.
Assign(str, info, val) ==
    IF info.Kind = "struct"
    THEN [q \in DOMAIN str |->
              IF \E n \in DOMAIN val : q = info.Path \o "." \o n
              THEN val[CHOOSE n \in DOMAIN val : q = info.Path \o "." \o n]
              ELSE str[q]]
    ELSE [str EXCEPT ![info.Path] = val]

\* The struct after decoding result d for a field.  A hook works on the
\* field in place: what it stored before it failed stays in the field.
Store(str, info, d) ==
    IF d.ok \/ d.val # ZeroValue(info.Type) THEN Assign(str, info, d.val) ELSE str

\* The loop of Process over the gathered fields, from field i on: str is
\* the struct so far, missing the keys of the unmet required fields so far.
RECURSIVE processFrom(_, _, _, _, _)
processFrom(infos, i, e, str, missing) ==
    IF i > Len(infos)
    THEN [s |-> str, err |-> IF missing = <<>> THEN NoError ELSE RequiredFieldError(missing)]
    ELSE LET info == infos[i]
             l == lookupEnv(e, info.Key)
             set == IsSet(l)
             value == IF ~set /\ info.Default # "" THEN info.Default ELSE l.value
         IN  IF ~set /\ info.Default = ""
             THEN processFrom(infos, i + 1, e, str,
                              IF info.Required THEN Append(missing, info.Key) ELSE missing)
             ELSE LET d == decoded[value, info.Type]
                  IN  IF ~d.ok
                      THEN [s |-> Store(str, info, d), err |-> ParseError(info, d.err)]
                      ELSE processFrom(infos, i + 1, e, Store(str, info, d), missing)

(***************************************************************************)
(* The environments a test may build.  For every leaf field of the struct  *)
(* the names a variable meant for it could plausibly carry: with and       *)
(* without the prefix, with all, only the named or none of the enclosing   *)
(* annotations, from the annotation or (without one) from the identifier,  *)
(* whole or split into words, and in the case the tags are written in.     *)
(***************************************************************************)
\* Whether a "_" separates position i of an identifier from position i - 1:
\* an upper-case letter after a non-upper-case one, or the last upper-case
\* letter of a run that a lower-case letter follows.
WordBreak(name, i) ==
    /\ i > 1
    /\ IsUpperChar(Char(name, i))
    /\ \/ ~IsUpperChar(Char(name, i - 1))
       \/ (i < Len(name) /\ ~IsUpperChar(Char(name, i + 1)))

RECURSIVE SplitWordsFrom(_, _)
SplitWordsFrom(name, i) ==
    IF i > Len(name) THEN ""
    ELSE (IF WordBreak(name, i) THEN "_" ELSE "") \o Char(name, i) \o SplitWordsFrom(name, i + 1)

\* MultiWordVar -> Multi_Word_Var
SplitWords(name) == SplitWordsFrom(name, 1)

\* The non-empty parts joined by "_".
RECURSIVE JoinKey(_)
JoinKey(parts) ==
    IF parts = <<>> THEN ""
    ELSE LET rest == JoinKey(Tail(parts))
         IN  IF Head(parts) = "" THEN rest
             ELSE IF rest = "" THEN Head(parts)
             ELSE Head(parts) \o "_" \o rest

Tags(segs) == [i \in DOMAIN segs |-> segs[i].Tag]
NamedSegs(segs) == SelectSeq(segs, LAMBDA f : ~f.Anonymous)

HasLower(str) == str # ToUpper(str)

CandidateKeys(prefix, c) ==
    LET names == IF c.Leaf.Tag # "" THEN {c.Leaf.Tag}
                 ELSE {c.Leaf.Name, SplitWords(c.Leaf.Name)}
        split == JoinKey(<<prefix>> \o Tags(NamedSegs(c.Segs)) \o <<SplitWords(c.Leaf.Name)>>)
        chains == {Tags(c.Segs), Tags(NamedSegs(c.Segs)), <<>>}
    IN  {ToUpper(JoinKey(<<prefix>> \o ch \o <<n>>)) : ch \in chains, n \in names}
        \cup (IF c.Segs = <<>> THEN {ToUpper(n) : n \in names} ELSE {})
        \cup {ToUpper(split)}
        \cup (IF HasLower(c.Leaf.Tag)
              THEN {JoinKey(<<prefix>> \o Tags(NamedSegs(c.Segs)) \o <<c.Leaf.Tag>>)}
              ELSE {})

EnvKeys(prefix, T) == UNION {CandidateKeys(prefix, c) : c \in Range(Chains(T))}

Prefixes == {"", "env_config"}

\* A test: the struct type, the prefix, and whether the caller stored
\* values in the struct before the call (the tests on Specification start
\* from var s Specification).
\* target is what the test hands over as spec: a pointer to the struct.
Calls ==
    {c \in [T : SpecTypes, prefix : Prefixes, preset : BOOLEAN, target : {"*struct"}] :
         c.T = "Specification" => ~c.preset}

\* What a test may hand over as spec: a pointer to the struct (&s), the
\* struct itself (s), or a pointer to a map (&m).
Targets == {"*struct", "struct", "*map"}

\* The tests on hooks, pointers and durations; those on the fields of
\* Specification call with "env_config" and &s on var s Specification.
HookCalls ==
    {c \in [T : HookTypes, prefix : Prefixes, preset : BOOLEAN, target : Targets] :
         c.T = "SpecificationHooks" =>
             ~c.preset /\ c.prefix = "env_config" /\ c.target = "*struct"}

\* The variables such a test may set, each with its value: for every field
\* of the struct the variable named by the prefix and its annotation, with
\* the values of the field's type; for an annotated field of a hooked
\* struct the name it would be bound from in a struct without hook; a
\* variable outside the prefix; and a misspelled one inside it.
Settings(prefix, T) ==
    UNION {{ToUpper(JoinKey(<<prefix, f.Tag>>))}
               \X (IF f.Default = "" THEN ValuesOf(TypeOf(f)) ELSE Overrides(TypeOf(f))) :
           f \in Range(Fields(T))}
    \cup UNION {UNION {{ToUpper(JoinKey(<<prefix, f.Tag, g.Tag>>))} \X ValuesOf(g.Kind) :
                           g \in {h \in Range(Fields(f.Sub)) : h.Tag # ""}} :
                f \in {h \in Range(Fields(T)) : h.Kind = "struct"}}
    \cup {<<"UNRELATED_ENV_VAR", "true">>,
          <<ToUpper(JoinKey(<<prefix, "ZEBUG">>)), "false">>}

\* What each test's call reads, computed once per call.
gathered == [T \in AllTypes, prefix \in Prefixes |-> gatherInfo(prefix, T)]
envKeys == [T \in SpecTypes, prefix \in Prefixes |-> EnvKeys(prefix, T)]
newStruct == [T \in AllTypes, preset \in BOOLEAN |-> NewStruct(T, preset)]
settings == [T \in HookTypes, prefix \in Prefixes |-> Settings(prefix, T)]

\* The struct of the current test as the caller built it, before Process.
s0 == newStruct[call.T, call.preset]

(***************************************************************************)
(* The actions: what a test does.                                          *)
(***************************************************************************)
\* Process(c.prefix, &str) under environment e.
\* Variant: every pointer is taken for a pointer to a struct.
IsPointer(target) == target # "struct"

\* Whether spec is a pointer to a struct.
IsStructPointer(target) == target = "*struct"

\* Variant: a decode error puts the struct back as it was.
ProcessResultRolledBack(c, e, str) ==
    IF ~IsStructPointer(c.target) THEN [s |-> str, err |-> ErrInvalidSpecification]
    ELSE IF processFrom(gathered[c.T, c.prefix], 1, e, str, <<>>).err.kind = "ParseError"
    THEN [s |-> str, err |-> processFrom(gathered[c.T, c.prefix], 1, e, str, <<>>).err]
    ELSE processFrom(gathered[c.T, c.prefix], 1, e, str, <<>>)

\* It returns ErrInvalidSpecification, before it looks at a field or at
\* the environment, unless spec is a pointer to a struct.
ProcessResult(c, e, str) ==
    IF ~IsStructPointer(c.target) THEN [s |-> str, err |-> ErrInvalidSpecification]
    ELSE processFrom(gathered[c.T, c.prefix], 1, e, str, <<>>)

\* Variant: the variable of an ignored field is known as well.
UnknownUnlessIgnored(c, e) ==
    {k \in DOMAIN e :
        /\ HasAt(k, 1, ToUpper(c.prefix))
        /\ \A i \in DOMAIN Fields(c.T) :
               Fields(c.T)[i].Tag = "" \/ KeyOf(c.prefix, Segment(Fields(c.T)[i])) # k}

\* The variables CheckDisallowed rejects: those that start with the
\* upper-case prefix and are not the key of a gathered field.
Unknown(c, e) ==
    {k \in DOMAIN e :
        /\ HasAt(k, 1, ToUpper(c.prefix))
        /\ \A i \in DOMAIN gathered[c.T, c.prefix] : gathered[c.T, c.prefix][i].Key # k}

\* CheckDisallowed(c.prefix, &str) under environment e: every error it may
\* return; os.Environ() fixes no order among the variables.
CheckDisallowedResults(c, e) ==
    IF Unknown(c, e) = {} THEN {NoError}
    ELSE {UnknownVariable(k) : k \in Unknown(c, e)}

TypeOK ==
    /\ pc \in {"setup", "done", "returned", "panicked", "checked"}
    /\ call \in Calls \cup HookCalls
    /\ DOMAIN s = DOMAIN newStruct[call.T, call.preset]

Init ==
    /\ pc = "setup"
    /\ env = <<>>
    /\ call \in Calls
    /\ s = s0
    /\ err = NoError

\* os.Setenv(key, value); a test sets a variable once, and at most MaxEnv
\* variables.
Setenv(key, value) ==
    /\ pc = "setup"
    /\ key \notin DOMAIN env
    /\ Cardinality(DOMAIN env) < MaxEnv
    /\ env' = [k \in DOMAIN env \cup {key} |-> IF k = key THEN value ELSE env[k]]
    /\ UNCHANGED <<call, s, err, pc>>

\* err := Process(prefix, &s)
Process ==
    /\ pc = "setup"
    /\ \E r \in {ProcessResult(call, env, s)} :
           /\ s' = r.s
           /\ err' = r.err
    /\ pc' = "done"
    /\ UNCHANGED <<env, call>>

\* MustProcess(prefix, &s): it panics with the error Process returns, if
\* any, and else returns.
MustProcess ==
    /\ pc = "setup"
    /\ \E r \in {ProcessResult(call, env, s)} :
           /\ s' = r.s
           /\ err' = r.err
           /\ pc' = IF r.err = NoError THEN "returned" ELSE "panicked"
    /\ UNCHANGED <<env, call>>

\* err := CheckDisallowed(prefix, &s); the tests hand it a pointer to a
\* struct.
CheckDisallowed ==
    /\ pc = "setup"
    /\ IsStructPointer(call.target)
    /\ err' \in CheckDisallowedResults(call, env)
    /\ pc' = "checked"
    /\ UNCHANGED <<env, call, s>>

\* The next test on the same struct type: a new struct value, os.Clearenv()
NewTest ==
    /\ pc # "setup"
    /\ pc' = "setup"
    /\ env' = <<>>
    /\ s' = s0
    /\ err' = NoError
    /\ UNCHANGED call

Next ==
    \/ \E key \in envKeys[call.T, call.prefix], value \in Values : Setenv(key, value)
    \/ Process
    \/ NewTest

Spec == Init /\ [][Next]_vars

\* The tests on hooks, pointers, durations, MustProcess and CheckDisallowed.
InitHooks ==
    /\ pc = "setup"
    /\ env = <<>>
    /\ call \in HookCalls
    /\ s = s0
    /\ err = NoError

NextHooks ==
    \/ \E kv \in settings[call.T, call.prefix] : Setenv(kv[1], kv[2])
    \/ Process
    \/ MustProcess
    \/ CheckDisallowed
    \/ NewTest

SpecHooks == InitHooks /\ [][NextHooks]_vars

(***************************************************************************)
(* The properties.  They are stated over the leaf fields of the struct as  *)
(* declared (Chains), not over what gatherInfo returned: each row holds    *)
(* the tags of one leaf and the variable names the properties speak of.    *)
(***************************************************************************)
Row(prefix, c) ==
    [Path |-> c.Path, Name |-> c.Leaf.Name, Kind |-> c.Leaf.Kind, Tag |-> c.Leaf.Tag,
     Required |-> c.Leaf.Required, Default |-> c.Leaf.Default,
     \* the leaf, or a struct that encloses it, is marked ignored
     Off |-> c.Leaf.Ignored \/ \E i \in DOMAIN c.Segs : c.Segs[i].Ignored,
     \* the leaf is directly in the struct handed to Process
     Top |-> c.Segs = <<>>,
     \* every enclosing struct field is embedded or carries no annotation
     Hoisted |-> c.Segs # <<>> /\ \A i \in DOMAIN c.Segs : c.Segs[i].Anonymous \/ c.Segs[i].Tag = "",
     \* some enclosing struct field is embedded and carries an annotation
     EmbeddedTagged |-> \E i \in DOMAIN c.Segs : c.Segs[i].Anonymous /\ c.Segs[i].Tag # "",
     \* upper(PREFIX_S1_..._Sk_N), S1..Sk the annotations of the enclosing named fields
     Key |-> ToUpper(JoinKey(<<prefix>> \o Tags(NamedSegs(c.Segs)) \o <<c.Leaf.Tag>>)),
     \* upper(PREFIX_S1_..._Sk_N), S1..Sk the annotations of all enclosing fields
     SegKey |-> ToUpper(JoinKey(<<prefix>> \o Tags(c.Segs) \o <<c.Leaf.Tag>>)),
     \* upper(PREFIX_N)
     FlatKey |-> ToUpper(JoinKey(<<prefix, c.Leaf.Tag>>)),
     \* upper(PREFIX_..._<identifier split into words>)
     SplitKey |-> ToUpper(JoinKey(<<prefix>> \o Tags(NamedSegs(c.Segs)) \o <<SplitWords(c.Leaf.Name)>>)),
     \* every name the model's tests may set for this leaf
     Candidates |-> CandidateKeys(prefix, c)]

RECURSIVE RowsFrom(_, _, _)
RowsFrom(prefix, cs, i) ==
    IF i > Len(cs) THEN <<>> ELSE <<Row(prefix, cs[i])>> \o RowsFrom(prefix, cs, i + 1)

rows == [T \in SpecTypes, prefix \in Prefixes |-> RowsFrom(prefix, Chains(T), 1)]

\* The rows of the struct of the current test.
Rows == rows[call.T, call.prefix]

\* The leaf is one Process binds: not ignored, and annotated.
Bound(r) == ~r.Off /\ r.Tag # ""

Present(k) == k \in DOMAIN env
Blank(k) == Present(k) /\ env[k] = ""
NonBlank(k) == Present(k) /\ env[k] # ""

\* The value a bound leaf is decoded from when it reads variable k: the
\* variable's if it is set and not blank, else the default ("" for none).
Raw(r, k) == IF NonBlank(k) THEN env[k] ELSE r.Default

\* Nothing stops Process at this leaf or makes it report it.
Fine(r) ==
    Bound(r) =>
        IF Raw(r, r.Key) = "" THEN ~r.Required ELSE decoded[Raw(r, r.Key), r.Kind].ok

AllFine == \A i \in DOMAIN Rows : Fine(Rows[i])

Returned == pc = "done"
Succeeded == Returned /\ err.kind = "nil"
Reported(k) == \E i \in DOMAIN err.keys : err.keys[i] = k

\* C1: a required field whose variable is absent or blank, without default,
\* makes Process return an error; set to a non-blank value it is not
\* reported, Process succeeds when no other field fails, and the field then
\* holds the value; absent with a default it is not reported either and
\* holds the default.
C1_Required ==
    Returned =>
        \A i \in DOMAIN Rows :
            LET r == Rows[i]
            IN  (Bound(r) /\ r.Required) =>
                    /\ (~Present(r.Key) /\ r.Default = "") => err.kind # "nil"
                    /\ (Blank(r.Key) /\ r.Default = "") => err.kind # "nil"
                    /\ (NonBlank(r.Key) \/ (~Present(r.Key) /\ r.Default # "")) =>
                           /\ ~Reported(r.Key)
                           /\ AllFine => err.kind = "nil"
                           /\ err.kind = "nil" =>
                                  s[r.Path] = decoded[Raw(r, r.Key), r.Kind].val

C1_Witness ==
    /\ Succeeded
    /\ call.T = "Specification" /\ call.prefix = "env_config"
    /\ NonBlank("ENV_CONFIG_REQUIREDVAR")
    /\ s["RequiredVar"] = env["ENV_CONFIG_REQUIREDVAR"]
    /\ ~Present("ENV_CONFIG_REQUIREDDEFAULT")
    /\ s["RequiredDefault"] = "foo2bar"

\* The value Process leaves in a leaf that it binds to variable k: decoded
\* from the variable or the default, as it was when neither gives a value.
BoundTo(r, k) ==
    IF Raw(r, k) = "" THEN s0[r.Path] ELSE decoded[Raw(r, k), r.Kind].val

\* Process returned without stopping at a value it could not decode.
Traversed == Returned /\ err.kind # "ParseError"

\* The resolved keys of the required fields left without a value.
Unmet == {Rows[i].Key : i \in {j \in DOMAIN Rows :
              Bound(Rows[j]) /\ Rows[j].Required /\ Raw(Rows[j], Rows[j].Key) = ""}}

\* C2: the required-field error comes after the whole struct, nested
\* structs included, has been traversed, and names the resolved key of every
\* unmet required field: ENV_CONFIG_BAR, BAR under the empty prefix,
\* ENV_CONFIG_FOO_BAR for a nested field.
C2_RequiredAggregated ==
    Returned =>
        /\ err.kind = "RequiredFieldError" =>
               /\ {err.keys[i] : i \in DOMAIN err.keys} = Unmet
               /\ Len(err.keys) = Cardinality(Unmet)
               /\ \A i \in DOMAIN Rows :
                      Bound(Rows[i]) => s[Rows[i].Path] = BoundTo(Rows[i], Rows[i].Key)
        /\ (Unmet # {} /\ err.kind # "ParseError") => err.kind = "RequiredFieldError"
        /\ (call.T = "RequiredAltVar" /\ ~NonBlank(IF call.prefix = "" THEN "BAR" ELSE "ENV_CONFIG_BAR")) =>
               err.keys = <<IF call.prefix = "" THEN "BAR" ELSE "ENV_CONFIG_BAR">>
        /\ (call.T = "RequiredAltVarNested" /\ call.prefix = "env_config"
                /\ ~NonBlank("ENV_CONFIG_FOO_BAR")) =>
               err.keys = <<"ENV_CONFIG_FOO_BAR">>

C2_Witness ==
    /\ Returned
    /\ call.T = "Probe" /\ call.prefix = "env_config"
    /\ err.kind = "RequiredFieldError"
    /\ err.keys = <<"ENV_CONFIG_AA", "ENV_CONFIG_IN_BB">>
    /\ NonBlank("ENV_CONFIG_IN_DP_CC")
    /\ s["In.Deep.Cc"] = env["ENV_CONFIG_IN_DP_CC"]
    /\ s["ProbePlain.Dd"] = "dflt"

\* The environment without its blank variables.
Unblanked(e) == [k \in {x \in DOMAIN e : e[x] # ""} |-> e[k]]

\* C3 (as stated): the default is used only when the variable is absent; a
\* variable set to "" is decoded as blank (a string field holds "", a map
\* field an initialized empty map) and never replaced by the default, and a
\* field with required and default whose variable is blank is an error.
C3_BlankDecodedAsBlank ==
    Returned =>
        \A i \in DOMAIN Rows :
            LET r == Rows[i]
            IN  (Bound(r) /\ Blank(r.Key)) =>
                    /\ (err.kind = "nil" /\ r.Kind = "string") => s[r.Path] = ""
                    /\ (err.kind = "nil" /\ r.Kind = "map") => s[r.Path] = MakeMap({})
                    /\ (r.Required /\ r.Default # "") => err.kind # "nil"

\* C3 (amended): the default is used if and only if the variable is absent
\* or blank: a field with a default holds the value decoded from its
\* variable when that is set and not blank, and the decoded default
\* otherwise; a field without default whose variable is absent or blank is
\* left as it was (a nil map stays nil); a field with required and default
\* is never reported as missing.
C3_DefaultWhenAbsentOrBlank ==
    Traversed =>
        \A i \in DOMAIN Rows :
            LET r == Rows[i]
            IN  Bound(r) =>
                    /\ (r.Default # "" /\ NonBlank(r.Key)) =>
                           s[r.Path] = decoded[env[r.Key], r.Kind].val
                    /\ (r.Default # "" /\ ~NonBlank(r.Key)) =>
                           s[r.Path] = decoded[r.Default, r.Kind].val
                    /\ (r.Default = "" /\ ~NonBlank(r.Key)) => s[r.Path] = s0[r.Path]
                    /\ (r.Default # "" /\ r.Required) => ~Reported(r.Key)

C3_Witness ==
    /\ Succeeded
    /\ call.T = "Specification" /\ call.prefix = "env_config"
    /\ Blank("ENV_CONFIG_REQUIREDDEFAULT")
    /\ s["RequiredDefault"] = "foo2bar"
    /\ s["DefaultVar"] = "foobar"
    /\ s["EmptyMapField"] = NilMap

\* C4: a variable set to "" is handled exactly like a missing one: Process
\* returns the error and leaves the struct it would with the blank variables
\* unset; DEFAULTVAR="" gives "foobar", MAPFIELD="" the default map
\* {one:two, three:four}, and EMPTY_MAPFIELD="" leaves the map nil.
C4_BlankLikeMissing ==
    Returned =>
        /\ [s |-> s, err |-> err] = ProcessResult(call, Unblanked(env), s0)
        /\ (Traversed /\ call.T = "Specification" /\ call.prefix = "env_config") =>
               /\ Blank("ENV_CONFIG_DEFAULTVAR") => s["DefaultVar"] = "foobar"
               /\ Blank("ENV_CONFIG_MAPFIELD") =>
                      s["MapField"] = MakeMap({<<"one", "two">>, <<"three", "four">>})
               /\ Blank("ENV_CONFIG_EMPTY_MAPFIELD") => s["EmptyMapField"] = NilMap

C4_Witness ==
    /\ Traversed
    /\ call.T = "Specification" /\ call.prefix = "env_config"
    /\ Blank("ENV_CONFIG_MAPFIELD")
    /\ s["MapField"] = MakeMap({<<"one", "two">>, <<"three", "four">>})
    /\ Blank("ENV_CONFIG_EMPTY_MAPFIELD")
    /\ s["EmptyMapField"] = NilMap

C6_UntaggedBoundFromSplitName ==
    Traversed =>
        \A i \in DOMAIN Rows :
            LET r == Rows[i]
            IN  (~r.Off /\ r.Tag = "") => s[r.Path] = BoundTo(r, r.SplitKey)

\* C6 (amended): for every prefix, a field without name annotation is bound
\* from no key, the word-split one included; a field with a name annotation
\* is bound from the uppercased annotation after the prefix and enclosing
\* segments, whatever the word-split name of its identifier holds.
C6_AnnotationOnly ==
    Traversed =>
        \A i \in DOMAIN Rows :
            LET r == Rows[i]
            IN  ~r.Off =>
                    /\ r.Tag = "" => s[r.Path] = s0[r.Path]
                    /\ r.Tag # "" => s[r.Path] = BoundTo(r, r.Key)

C6_Witness ==
    /\ Succeeded
    /\ call.T = "NonTaggedFields" /\ call.prefix = "env_config" /\ call.preset
    /\ NonBlank("ENV_CONFIG_BAR") /\ s["Bar"] = "preset"
    /\ NonBlank("ENV_CONFIG_FOO") /\ s["Foo"] = env["ENV_CONFIG_FOO"]

\* C7: a leaf field without envconfig name annotation is skipped: it is left
\* as it was (at its zero value in a new struct) even with a variable of its
\* field-derived name set (BAR, BAZ), its default is not applied, its
\* required tag raises no error, and Process on NonTaggedFields returns nil.
C7_UntaggedLeafSkipped ==
    Returned =>
        /\ \A i \in DOMAIN Rows :
               LET r == Rows[i]
               IN  (~r.Off /\ r.Tag = "") =>
                       /\ s[r.Path] = s0[r.Path]
                       /\ \A k \in r.Candidates : ~Reported(k)
                       /\ err.kind = "ParseError" => err.field # r.Name
        /\ call.T = "NonTaggedFields" => err.kind = "nil"

C7_Witness ==
    /\ Succeeded
    /\ call.T = "NonTaggedFields" /\ call.prefix = "" /\ ~call.preset
    /\ NonBlank("BAR") /\ NonBlank("BAZ")
    /\ s["Bar"] = "" /\ s["Baz"] = ""

\* C8: a struct-typed field that is embedded, or that carries no name
\* annotation, adds no key segment: its annotated fields are bound from
\* PREFIX_CHILD.  So for Embedded, itself annotated EMBEDDED:
\* ENV_CONFIG_ENABLED, ENV_CONFIG_EMBEDDEDPORT and ENV_CONFIG_EMBEDDED_WITH_ALT
\* populate Enabled, EmbeddedPort and EmbeddedAlt under prefix env_config.
C8_EmbeddedOrUnnamedNoSegment ==
    Traversed =>
        /\ \A i \in DOMAIN Rows :
               LET r == Rows[i]
               IN  (Bound(r) /\ r.Hoisted) => s[r.Path] = BoundTo(r, r.FlatKey)
        /\ (call.T = "Specification" /\ call.prefix = "env_config") =>
               /\ NonBlank("ENV_CONFIG_ENABLED") =>
                      s["Embedded.Enabled"] = ParseBool(env["ENV_CONFIG_ENABLED"]).val
               /\ NonBlank("ENV_CONFIG_EMBEDDEDPORT") =>
                      s["Embedded.EmbeddedPort"] = ParseInt(env["ENV_CONFIG_EMBEDDEDPORT"]).val
               /\ NonBlank("ENV_CONFIG_EMBEDDED_WITH_ALT") =>
                      s["Embedded.EmbeddedAlt"] = env["ENV_CONFIG_EMBEDDED_WITH_ALT"]

C8_Witness ==
    /\ Traversed
    /\ call.T = "Specification" /\ call.prefix = "env_config"
    /\ NonBlank("ENV_CONFIG_ENABLED") /\ s["Embedded.Enabled"] = TRUE
    /\ NonBlank("ENV_CONFIG_EMBEDDEDPORT") /\ s["Embedded.EmbeddedPort"] = 1

\* C9 (as stated): an embedded struct that carries a name annotation is a
\* named segment: its fields are bound from PREFIX_ANNOTATION_CHILD and not
\* from PREFIX_CHILD.
C9_EmbeddedAnnotatedIsSegment ==
    Traversed =>
        \A i \in DOMAIN Rows :
            LET r == Rows[i]
            IN  (Bound(r) /\ r.EmbeddedTagged) => s[r.Path] = BoundTo(r, r.SegKey)

\* C9 (amended): an embedded struct adds no segment, with or without name
\* annotation: its fields are bound from PREFIX_CHILD and not from
\* PREFIX_ANNOTATION_CHILD; only a named struct field that carries a name
\* annotation is a segment, its fields bound from PREFIX_ANNOTATION_CHILD.
C9_EmbeddedNeverSegment ==
    Traversed =>
        \A i \in DOMAIN Rows :
            LET r == Rows[i]
            IN  Bound(r) =>
                    /\ r.EmbeddedTagged =>
                           /\ r.Key # r.SegKey
                           /\ s[r.Path] = BoundTo(r, r.Key)
                           /\ ~NonBlank(r.Key) => s[r.Path] = s0[r.Path]
                    /\ (~r.Top /\ ~r.Hoisted /\ ~r.EmbeddedTagged) =>
                           /\ r.SegKey # r.FlatKey
                           /\ s[r.Path] = BoundTo(r, r.SegKey)

C9_Witness ==
    /\ Traversed
    /\ call.T = "Specification" /\ call.prefix = "env_config"
    /\ NonBlank("ENV_CONFIG_EMBEDDED_ENABLED") /\ ~Present("ENV_CONFIG_ENABLED")
    /\ s["Embedded.Enabled"] = FALSE
    /\ NonBlank("ENV_CONFIG_OUTER_INNER")
    /\ s["NestedSpecification.Property"] = env["ENV_CONFIG_OUTER_INNER"]

\* C10: for every struct and environment, a field marked ignored, and every
\* field of a struct marked ignored, is left unchanged by Process: it is
\* not decoded, not even from its default, and no variable set for one of
\* its keys, nor its required tag, makes Process return an error for it.
C10_IgnoredUnchanged ==
    Returned =>
        \A i \in DOMAIN Rows :
            LET r == Rows[i]
            IN  r.Off =>
                    /\ s[r.Path] = s0[r.Path]
                    /\ \A k \in r.Candidates : ~Reported(k)
                    /\ err.kind = "ParseError" => err.key \notin r.Candidates

C10_Witness ==
    /\ Returned
    /\ call.T = "Probe" /\ call.prefix = "env_config" /\ call.preset
    /\ NonBlank("ENV_CONFIG_IG") /\ s["Ig"] = "preset"
    /\ NonBlank("ENV_CONFIG_IGS_EE") /\ s["IgS.Ee"] = "preset"
    /\ ~Reported("ENV_CONFIG_IG") /\ ~Reported("ENV_CONFIG_IGS_EE")

(***************************************************************************)
(* The properties of decoding, stated over the fields of the struct as     *)
(* declared.  The structs of these tests are flat: a field is bound as a   *)
(* whole from upper(PREFIX_ANNOTATION).                                    *)
(***************************************************************************)
\* One field of the struct: its tags, the variable it is bound from and
\* the paths of the struct that belong to it (the field itself, or the
\* fields of its struct type).
HookRow(prefix, T, f) ==
    [Name |-> f.Name, Type |-> TypeOf(f), Tag |-> f.Tag, Required |-> f.Required,
     Default |-> f.Default, Ignored |-> f.Ignored,
     Key |-> ToUpper(JoinKey(<<prefix, f.Tag>>)),
     Paths |-> {p \in Paths(T) : p = f.Name \/ HasAt(p, 1, f.Name \o ".")}]

hookRows ==
    [T \in HookTypes, prefix \in Prefixes |->
        [i \in DOMAIN Fields(T) |-> HookRow(prefix, T, Fields(T)[i])]]

\* The fields of the struct of the current test, in declaration order.
HookRows == hookRows[call.T, call.prefix]

\* The field is one Process binds: not ignored, and annotated.
Binds(r) == ~r.Ignored /\ r.Tag # ""

\* The value a field is decoded from: its variable's if set and not blank,
\* else its default ("" for none).
RawFor(r) == IF NonBlank(r.Key) THEN env[r.Key] ELSE r.Default

Undecodable(r) == Binds(r) /\ RawFor(r) # "" /\ ~decoded[RawFor(r), r.Type].ok

Untouched(r) == \A p \in r.Paths : s[p] = s0[p]

\* Process ran on a pointer to the struct (called directly or by
\* MustProcess).
Processed == pc \in {"done", "returned", "panicked"} /\ call.target = "*struct"

\* C11: when some field's value cannot be decoded, Process returns a
\* ParseError that names the first such field in declaration order and
\* carries the decoder's own error; that field (with the fields of its
\* struct type, for a type with a Set hook) still holds what it held before
\* the call, the zero value for a new struct; and no required-field error is
\* returned, whatever required fields are unmet.
C11_ParseErrorFirst ==
    Processed =>
        \A i \in DOMAIN HookRows :
            (Undecodable(HookRows[i]) /\ \A j \in 1..(i - 1) : ~Undecodable(HookRows[j])) =>
                /\ err.kind = "ParseError"
                /\ err.field = HookRows[i].Name
                /\ err.key = HookRows[i].Key
                /\ err.cause # ""
                /\ err.cause = decoded[RawFor(HookRows[i]), HookRows[i].Type].err
                /\ (HookRows[i].Type = "GooglePubSubTopic" =>
                        err.cause = ErrInvalidGoogleTopicID)
                /\ Untouched(HookRows[i])

\* TestParseErrorGooglePubSubTopic: REQUIREDVAR set, the topic malformed.
C11_Witness ==
    /\ Processed
    /\ call.T = "SpecificationHooks"
    /\ "ENV_CONFIG_REQUIREDVAR" \in DOMAIN env
    /\ err.kind = "ParseError"
    /\ err.field = "GooglePubSubTopic"
    /\ err.cause = ErrInvalidGoogleTopicID
    /\ s["GooglePubSubTopic.ProjectID"] = ""
    /\ s["GooglePubSubTopic.TopicID"] = ""

\* C12: handed a struct by value or a pointer to a map, Process returns
\* ErrInvalidSpecification whatever the environment holds and leaves the
\* struct alone, and MustProcess panics; MustProcess returns normally
\* exactly when Process returns nil, and panics with Process's error
\* otherwise.
C12_InvalidSpecification ==
    /\ (pc \in {"done", "returned", "panicked"} /\ call.target \in {"struct", "*map"}) =>
           /\ err = ErrInvalidSpecification
           /\ s = s0
           /\ pc # "returned"
    /\ pc = "returned" => err = NoError /\ ProcessResult(call, env, s0).err = NoError
    /\ pc = "panicked" => err # NoError /\ err = ProcessResult(call, env, s0).err

\* TestMustProcess: MustProcess("env_config", &m) panics, with variables set.
C12_Witness ==
    /\ pc = "panicked"
    /\ call.target = "*map"
    /\ err = ErrInvalidSpecification
    /\ env # <<>>

\* The variables of the environment that start with the upper-case prefix
\* and are not the key of a field Process binds.
upperPrefix == [prefix \in Prefixes |-> ToUpper(prefix)]

Offending ==
    {k \in DOMAIN env :
        /\ HasAt(k, 1, upperPrefix[call.prefix])
        /\ \A i \in DOMAIN HookRows : Binds(HookRows[i]) => HookRows[i].Key # k}

\* C13: CheckDisallowed returns an error exactly when the environment holds
\* a variable that starts with the upper-case prefix and is not the key of a
\* non-ignored field; the error is "unknown environment variable <KEY>" for
\* one such variable.  A variable outside the prefix is never named, and the
\* variable of an ignored field makes the check fail.
C13_CheckDisallowed ==
    pc = "checked" =>
        /\ (err # NoError) <=> (Offending # {})
        /\ err # NoError => err.kind = "unknown environment variable" /\ err.key \in Offending
        /\ err # NoError => HasAt(err.key, 1, upperPrefix[call.prefix])
        /\ \A i \in DOMAIN HookRows :
               (HookRows[i].Ignored /\ HookRows[i].Tag # "" /\ Present(HookRows[i].Key)) =>
                   err # NoError
        /\ s = s0

\* TestCheckDisallowedIgnored, with a variable outside the prefix set too.
C13_Witness ==
    /\ pc = "checked"
    /\ call.T = "SpecificationHooks"
    /\ DOMAIN env = {"ENV_CONFIG_IGNORED", "UNRELATED_ENV_VAR"}
    /\ err = UnknownVariable("ENV_CONFIG_IGNORED")

\* What the claimed precedence stores for a raw value in a field of type T
\* that holds its zero value: the Decode hook's result if the type has one,
\* else the Set hook's, else the binary hook's, else the built-in decoding.
ByPrecedence(value, T) ==
    IF "Decode" \in Hooks(T) THEN Decode(T, ZeroValue(T), value).val
    ELSE IF "Set" \in Hooks(T) THEN Set(T, ZeroValue(T), value).val
    ELSE IF "UnmarshalBinary" \in Hooks(T) THEN UnmarshalBinary(T, ZeroValue(T), value).val
    ELSE decodeKind(value, T).val

byPrecedence == [value \in RawValues, T \in DecodeTypes |-> ByPrecedence(value, T)]

\* The field holds v: a field of a struct type holds it field by field.
Holds(r, v) ==
    IF r.Type \in TypeNames
    THEN \A n \in DOMAIN v : s[r.Name \o "." \o n] = v[n]
    ELSE s[r.Name] = v

\* Process went through every field: no decoding failed.
AllProcessed == Processed /\ err.kind # "ParseError"

\* C14: a bound field with a value holds what the first of Decode, Set, the
\* binary hook and the built-in decoding that its type has makes of the raw
\* value of the field's own variable (or default); this holds for a field of
\* a hooked struct type as a whole, whose own fields are not bound: without
\* a value for the struct's variable they keep what they held, whatever
\* variables named after them are set.
C14_HookPrecedence ==
    AllProcessed =>
        \A i \in DOMAIN HookRows :
            Binds(HookRows[i]) =>
                IF RawFor(HookRows[i]) # ""
                THEN Holds(HookRows[i], byPrecedence[RawFor(HookRows[i]), HookRows[i].Type])
                ELSE Untouched(HookRows[i])

\* TestCustomValueFields: quoted has Decode and Set, setterStruct is a
\* struct with Set.
C14_Witness ==
    /\ AllProcessed
    /\ call.T = "CustomValueFields"
    /\ call.prefix = "env_config"
    /\ DOMAIN env = {"ENV_CONFIG_BAZ", "ENV_CONFIG_STRUCT"}
    /\ s["Baz"] = "[\"baz\"]"
    /\ s["Struct.Inner"] = "setterstruct{\"inner\"}"
    /\ err = NoError

\* "Nd": digits and one "d".
IsDays(raw) ==
    Len(raw) > 1 /\ Char(raw, Len(raw)) = "d" /\ AllDigits(SubSeq(raw, 1, Len(raw) - 1))

\* N of "Nd"
DaysOf(raw) == DigitsValue(SubSeq(raw, 1, Len(raw) - 1), 0)

isDays == [raw \in RawValues |-> IsDays(raw)]

MalformedDays == {"1dd", "d", " d"}

\* C15: a time.Duration field decoded from "Nd" holds N times 24 hours
\* ("10d" 240h, "1d" 24h, "0d" 0), and one decoded from the standard grammar
\* what that grammar says ("2m" two minutes, "1h30m" ninety minutes), and
\* Process returns no ParseError for the field; a value "1dd", "d" or " d"
\* makes Process return an error, the ParseError of that field when no
\* field before it fails.
C15_DayDuration ==
    Processed =>
        \A i \in DOMAIN HookRows :
            (Binds(HookRows[i]) /\ HookRows[i].Type = "duration") =>
                /\ (RawFor(HookRows[i]) \in {"2m", "1h30m", "0"}
                      \/ (RawFor(HookRows[i]) # "" /\ isDays[RawFor(HookRows[i])])) =>
                       ~(err.kind = "ParseError" /\ err.field = HookRows[i].Name)
                /\ (AllProcessed /\ RawFor(HookRows[i]) # "" /\ isDays[RawFor(HookRows[i])]) =>
                       s[HookRows[i].Name]
                           = DaysOf(RawFor(HookRows[i])) * HoursPerDay * SecondsPerHour
                /\ (AllProcessed /\ RawFor(HookRows[i]) = "10d") =>
                       s[HookRows[i].Name] = 240 * SecondsPerHour
                /\ (AllProcessed /\ RawFor(HookRows[i]) = "2m") =>
                       s[HookRows[i].Name] = 2 * SecondsPerMinute
                /\ (AllProcessed /\ RawFor(HookRows[i]) = "1h30m") =>
                       s[HookRows[i].Name] = 90 * SecondsPerMinute
                /\ RawFor(HookRows[i]) \in MalformedDays =>
                       /\ err # NoError
                       /\ (\A j \in 1..(i - 1) : ~Undecodable(HookRows[j])) =>
                              err.kind = "ParseError" /\ err.field = HookRows[i].Name

\* ENV_CONFIG_TIMEOUT=10d with REQUIREDVAR set: Timeout is 240 hours.
C15_Witness ==
    /\ pc = "done"
    /\ call.T = "SpecificationHooks"
    /\ "ENV_CONFIG_REQUIREDVAR" \in DOMAIN env
    /\ "ENV_CONFIG_TIMEOUT" \in DOMAIN env
    /\ env["ENV_CONFIG_TIMEOUT"] = "10d"
    /\ err = NoError
    /\ s["Timeout"] = 240 * SecondsPerHour

\* C16: when decoding fails at a field, Process returns that error; every
\* field bound before it holds what Process gave it (the decoded variable or
\* default, or what it held if it has neither), and no field after it is
\* populated: each holds what it held before the call, whatever its variable
\* or default.
C16_NoRollback ==
    Processed =>
        \A i \in DOMAIN HookRows :
            (Undecodable(HookRows[i]) /\ \A j \in 1..(i - 1) : ~Undecodable(HookRows[j])) =>
                /\ err.kind = "ParseError" /\ err.field = HookRows[i].Name
                /\ \A j \in 1..(i - 1) :
                       Binds(HookRows[j]) =>
                           IF RawFor(HookRows[j]) # ""
                           THEN Holds(HookRows[j],
                                      byPrecedence[RawFor(HookRows[j]), HookRows[j].Type])
                           ELSE Untouched(HookRows[j])
                /\ \A j \in (i + 1)..Len(HookRows) : Untouched(HookRows[j])

\* DEBUG=true is stored, TIMEOUT=1dd fails, and SomePointerWithDefault after
\* it does not get its default.
C16_Witness ==
    /\ pc = "done"
    /\ call.T = "SpecificationHooks"
    /\ err.kind = "ParseError"
    /\ err.field = "Timeout"
    /\ "ENV_CONFIG_DEBUG" \in DOMAIN env
    /\ s["Debug"] = TRUE
    /\ s["SomePointerWithDefault"] = NilPtr

\* The types of the pointer fields.
PointerTypes == {"*string", "*bracketed", "*quoted", "*setterStruct"}

\* C17: after a successful Process a pointer field without a variable (or
\* with a blank one) and without default is as the caller left it, nil in a
\* new struct; with a variable or a default it is not nil and points to the
\* decoded value (SOMEPOINTER=foobaz gives "foobaz", the default of
\* SomePointerWithDefault "foo2baz").
C17_PointerLazy ==
    (Processed /\ err = NoError) =>
        \A i \in DOMAIN HookRows :
            (Binds(HookRows[i]) /\ HookRows[i].Type \in PointerTypes) =>
                IF RawFor(HookRows[i]) = ""
                THEN /\ s[HookRows[i].Name] = s0[HookRows[i].Name]
                     /\ (~call.preset /\ HookRows[i].Type \in {"*string", "*setterStruct"}) =>
                            s[HookRows[i].Name].nil
                ELSE /\ ~s[HookRows[i].Name].nil
                     /\ s[HookRows[i].Name].val
                            = byPrecedence[RawFor(HookRows[i]), HookRows[i].Type].val
                     /\ HookRows[i].Type = "*string" =>
                            s[HookRows[i].Name].val = RawFor(HookRows[i])

\* TestEmbeddedStruct, TestBlankDefaultVar: SOMEPOINTER=foobaz, and the
\* default of SomePointerWithDefault.
C17_Witness ==
    /\ pc = "done"
    /\ call.T = "SpecificationHooks"
    /\ err = NoError
    /\ "ENV_CONFIG_SOMEPOINTER" \in DOMAIN env
    /\ s["SomePointer"] = PtrTo("foobaz")
    /\ s["SomePointerWithDefault"] = PtrTo("foo2baz")

\* The values of TestProcess and TestParseErrorGoogleFirestoreDatabase.
FirestoreDefault == "projects/project-id/databases/(default)"
FirestoreMalformed == "invalid/project-id/databases"

\* C18: GoogleFirestoreDatabase.Set accepts
\* "projects/project-id/databases/(default)", returning nil with ProjectID
\* "project-id" and Database "(default)", so that Process with the value in
\* ENV_CONFIG_GOOGLE_FIRESTORE_DATABASE_DEFAULT does not fail on the field
\* and, when it succeeds, leaves these two values in it; for a value without
\* the projects/<p>/databases/<d> shape Set returns
\* ErrInvalidGoogleFirestoreID and both fields are unchanged.
C18_FirestoreDefaultAccepted ==
    (Processed /\ call.T = "SpecificationHooks") =>
        \A i \in DOMAIN HookRows :
            HookRows[i].Type = "GoogleFirestoreDatabase" =>
                /\ RawFor(HookRows[i]) = FirestoreDefault =>
                    /\ decoded[FirestoreDefault, "GoogleFirestoreDatabase"].ok
                    /\ ~(err.kind = "ParseError" /\ err.field = HookRows[i].Name)
                    /\ err = NoError =>
                        /\ s[HookRows[i].Name \o ".ProjectID"] = "project-id"
                        /\ s[HookRows[i].Name \o ".Database"] = "(default)"
                /\ (/\ RawFor(HookRows[i]) = FirestoreMalformed
                    /\ \A j \in 1..(i - 1) : ~Undecodable(HookRows[j])) =>
                    /\ err.kind = "ParseError"
                    /\ err.field = HookRows[i].Name
                    /\ err.cause = ErrInvalidGoogleFirestoreID
                    /\ Untouched(HookRows[i])

====
